---- MODULE Spec2Model ----
(***************************************************************************)
(* Model of src/parser.py: the catalog crawler of sprint-rowery.pl.        *)
(*                                                                         *)
(* render() is the fetcher (bounded retry loop), parse_list() the listing  *)
(* parser, parse_product() the detail resolver with its extraction         *)
(* cascade, crawl() the page loop with the global seen-set, main() the     *)
(* sink.  The web server is the environment: the outcome of every request  *)
(* and the document of every successful response are chosen               *)
(* nondeterministically.                                                   *)
(*                                                                         *)
(* Python values: None and a missing element are the empty sequence <<>>,  *)
(* a present value v is <<v>>.  A text is a sequence of characters.        *)
(***************************************************************************)
EXTENDS Integers, Sequences, FiniteSets, TLC

VARIABLES
    pc,          \* position of the control flow of main()/crawl()
    MAX_PAGES,   \* module setting MAX_PAGES (0 = no limit)
    page,        \* crawl: page
    page_url,    \* crawl: page_url (<<>> is None)
    next_url,    \* crawl: next_url (<<>> is None)
    new_links,   \* crawl: new_links
    i,           \* crawl: 1-based position of the for loop over new_links
    seen,        \* crawl: seen
    items,       \* crawl: items
    prod,        \* crawl: prod, the last value parse_product returned
    attempt,     \* render: attempt (0 before the first one)
    outcome,     \* what the latest request attempt of the latest render call gave
    slept,       \* render: tenths of a second slept after the latest attempt
    r,           \* the value render returned last to parse_list/parse_product
    saved,       \* main: the rows written to output.csv / output.xlsx
    resolved     \* the links printed by line 229: parse_product was called for them

vars == <<pc, MAX_PAGES, page, page_url, next_url, new_links, i, seen, items,
          prod, attempt, outcome, slept, r, saved, resolved>>

crawlVars == <<MAX_PAGES, page, page_url, next_url, new_links, i, seen, items,
               prod, saved, resolved>>
renderVars == <<attempt, outcome, slept, r>>

-----------------------------------------------------------------------------
(* Bounds of the model *)

NumProducts == 2      \* product paths /rower-1 .. /rower-NumProducts
MaxCards == 2         \* product tiles of one listing document
PageCap == 2          \* listing pages a crawl of the model fetches at most
MaxPagesCfg == 1      \* MAX_PAGES is drawn from 0..MaxPagesCfg
MaxEls == 2           \* title elements of one product document
MaxScripts == 2       \* JSON-LD blocks of one product document
MaxCrumbs == 4        \* breadcrumb anchors of one product document
MaxLen == 4           \* characters of a description text

(* Program constants *)

RETRIES == 3
START_PAGE == 1

-----------------------------------------------------------------------------
(* Sequences *)

SeqUpTo(S, n) == UNION {[1..k -> S] : k \in 0..n}

RECURSIVE SeqContains(_, _)
SeqContains(s, x) ==
    IF s = <<>> THEN FALSE
    ELSE IF Head(s) = x THEN TRUE ELSE SeqContains(Tail(s), x)

Range(s) == {s[k] : k \in 1..Len(s)}

-----------------------------------------------------------------------------
(* Text: norm() *)

Whitespace == {" ", "\t", "\n"}

\* re.sub(r"\s+", " ", s): every maximal run of whitespace becomes one space
RECURSIVE Collapse(_)
Collapse(s) ==
    IF s = <<>> THEN <<>>
    ELSE IF Head(s) \in Whitespace
         THEN IF Len(s) >= 2 /\ s[2] \in Whitespace
              THEN Collapse(Tail(s))
              ELSE <<" ">> \o Collapse(Tail(s))
         ELSE <<Head(s)>> \o Collapse(Tail(s))

RECURSIVE LStrip(_)
LStrip(s) ==
    IF s # <<>> /\ Head(s) \in Whitespace THEN LStrip(Tail(s)) ELSE s

RECURSIVE RStrip(_)
RStrip(s) ==
    IF s # <<>> /\ s[Len(s)] \in Whitespace
    THEN RStrip(SubSeq(s, 1, Len(s) - 1)) ELSE s

\* str.strip()
Strip(s) == RStrip(LStrip(s))

\* norm without the final strip()
norm_nostrip(text) == Collapse(text)

\* norm(text): text is <<>> for None or "" alike ((text or ""))
norm(text) == Strip(Collapse(text))

-----------------------------------------------------------------------------
(* URLs: abs_url(), is_product_link() *)

\* An href is [abs, kind, n]: abs says it starts with "http"; kind "product"
\* is the path /rower-n, "listing" the path /rowery?page=n, "other" a path
\* without any of the keywords (an empty href included).
Href(a, k, n) == [abs |-> a, kind |-> k, n |-> n]

abs_url(href) == IF href.abs THEN href ELSE [href EXCEPT !.abs = TRUE]

\* any(k in path for k in ("/rower", "/produkt", "/product")): "/rowery" has
\* "/rower" in it as well
is_product_link(href) == href.kind \in {"product", "listing"}

ListingUrl(n) == Href(TRUE, "listing", n)
ProductUrl(n) == Href(TRUE, "product", n)

-----------------------------------------------------------------------------
(* parse_list: the listing parser *)

\* LIST_SELECTORS, in priority order
LIST_SELECTORS == <<".product-miniature", "article.product", "li.product",
                    "div.product", "div.js-product", "[data-id-product]">>

\* A listing document is
\*   [cards    : for each selector of LIST_SELECTORS the elements it finds, each
\*               given by its first a[href]: <<>> (none) or <<href>>,
\*    anchors  : the hrefs of r.html.find("a[href]"),
\*    next_rel : find('a[rel="next"]', first=True), <<>> or <<[href |-> h]>>
\*               with h = <<>> for a missing or empty href,
\*    next_cls : find(".pagination-next a, .next a", first=True), likewise]

\* the body of the loops of lines 120-126 and 132-135 over anchors `as`
RECURSIVE CollectLinks(_, _)
CollectLinks(as, links) ==
    IF as = <<>> THEN links
    ELSE LET a == Head(as) IN
         IF a = <<>> THEN CollectLinks(Tail(as), links)
         ELSE LET href == abs_url(a[1]) IN
              IF is_product_link(href) /\ ~SeqContains(links, href)
              THEN CollectLinks(Tail(as), Append(links, href))
              ELSE CollectLinks(Tail(as), links)

\* the selector loop with the break taken as soon as a selector finds cards
RECURSIVE SelectorLoopFirstMatch(_, _, _)
SelectorLoopFirstMatch(cards, k, links) ==
    IF k > Len(cards) THEN links
    ELSE IF cards[k] = <<>> THEN SelectorLoopFirstMatch(cards, k + 1, links)
    ELSE CollectLinks(cards[k], links)

\* for sel in LIST_SELECTORS, from selector k on
RECURSIVE SelectorLoop(_, _, _)
SelectorLoop(cards, k, links) ==
    IF k > Len(cards) THEN links
    ELSE IF cards[k] = <<>> THEN SelectorLoop(cards, k + 1, links)
    ELSE LET got == CollectLinks(cards[k], links) IN
         IF got # <<>> THEN got ELSE SelectorLoop(cards, k + 1, got)

\* plan B: all hyperlinks of the page, filtered by the heuristic
ScanAnchors(anchors) ==
    CollectLinks([k \in 1..Len(anchors) |-> <<anchors[k]>>], <<>>)

ListLinks(doc) ==
    LET links == SelectorLoop(doc.cards, 1, <<>>) IN
    IF links = <<>> THEN ScanAnchors(doc.anchors) ELSE links

\* variant of NextUrl that falls back to the first listing page when the
\* document has no "next" control (C4 depends on the None of line 139)
NextUrlDefault(doc) ==
    LET next_el == IF doc.next_rel # <<>> THEN doc.next_rel ELSE doc.next_cls IN
    IF next_el # <<>> /\ next_el[1].href # <<>>
    THEN <<abs_url(next_el[1].href[1])>>
    ELSE <<ListingUrl(START_PAGE)>>

NextUrl(doc) ==
    LET next_el == IF doc.next_rel # <<>> THEN doc.next_rel ELSE doc.next_cls IN
    IF next_el # <<>> /\ next_el[1].href # <<>>
    THEN <<abs_url(next_el[1].href[1])>>
    ELSE <<>>

\* parse_list(url, page_idx) once render has returned resp
parse_list(resp) ==
    IF resp = <<>> THEN [links |-> <<>>, next_url |-> <<>>]
    ELSE [links |-> ListLinks(resp[1]), next_url |-> NextUrl(resp[1])]

-----------------------------------------------------------------------------
(* parse_product: the detail resolver and its extraction cascade *)

\* selectors of the title and of the price, in priority order
TITLE_SELECTORS == <<"h1.product-name", "h1[itemprop='name']", "h1">>
PRICE_SELECTORS == <<".current-price", ".product-prices .price",
                     "span[itemprop='price']", ".price">>
LD_TYPES == {"Product", "Bike", "Thing"}

\* A product document is
\*   [title_els : the elements of the page that are candidates for the title,
\*                in document order, each [m |-> the selectors of
\*                TITLE_SELECTORS it matches, text |-> its text],
\*    price_els : likewise for PRICE_SELECTORS,
\*    img       : the image cascade's element, <<>> or <<[src |-> <<>> or <<href>>]>>,
\*    crumbs    : the texts of the breadcrumb anchors, in document order,
\*    desc      : the description element, <<>> or <<[text |-> t]>>,
\*    scripts   : the JSON-LD blocks, each [ok |-> json.loads succeeds and the
\*                fields have the expected types, type |-> "@type",
\*                name |-> "name" (<<>> when missing), offers |-> <<>> (no
\*                offers object) or <<price text>>]]

\* r.html.find(sel, first=True): the first element, in document order, that
\* matches selector number s; <<>> is None
RECURSIVE FindFirst(_, _)
FindFirst(els, s) ==
    IF els = <<>> THEN <<>>
    ELSE IF s \in Head(els).m THEN <<Head(els)>> ELSE FindFirst(Tail(els), s)

\* find(sel_s) or find(sel_s+1) or ... or find(sel_n): an element is truthy
\* whatever its text
RECURSIVE FindCascade(_, _, _)
FindCascade(els, s, n) ==
    IF s > n THEN <<>>
    ELSE LET el == FindFirst(els, s) IN
         IF el # <<>> THEN el ELSE FindCascade(els, s + 1, n)

\* el.text if el else ""
TextOf(el) == IF el # <<>> THEN el[1].text ELSE <<>>

SelectorTitle(doc) ==
    norm(TextOf(FindCascade(doc.title_els, 1, Len(TITLE_SELECTORS))))

SelectorPrice(doc) ==
    norm(TextOf(FindCascade(doc.price_els, 1, Len(PRICE_SELECTORS))))

\* lines 169-172: an element without src/content/data-src gives abs_url("")
Image(doc) ==
    IF doc.img = <<>> THEN <<>>
    ELSE IF doc.img[1].src = <<>> THEN <<Href(TRUE, "other", 0)>>
    ELSE <<abs_url(doc.img[1].src[1])>>

\* lines 174-177
Category(crumbs) ==
    IF crumbs = <<>> THEN <<>>
    ELSE norm(IF Len(crumbs) >= 2 THEN crumbs[Len(crumbs) - 1]
              ELSE crumbs[Len(crumbs)])

Description(doc) == norm(TextOf(doc.desc))

\* variant of LdBlock that lets the structured data override what the
\* selectors gave (C10 depends on the "title or", "price or" of lines 191, 196)
LdBlockOverwrite(sc, tp) ==
    IF sc.ok /\ sc.type \in LD_TYPES
    THEN << IF norm(sc.name) # <<>> THEN norm(sc.name) ELSE tp[1],
            IF sc.offers = <<>> THEN tp[2] ELSE Strip(sc.offers[1]) >>
    ELSE tp

\* one JSON-LD block of the loop of lines 184-198, on tp = <<title, price>>
LdBlock(sc, tp) ==
    IF sc.ok /\ sc.type \in LD_TYPES
    THEN << IF tp[1] # <<>> THEN tp[1] ELSE norm(sc.name),
            IF sc.offers = <<>> THEN tp[2]
            ELSE IF tp[2] # <<>> THEN tp[2] ELSE Strip(sc.offers[1]) >>
    ELSE tp

RECURSIVE LdLoop(_, _)
LdLoop(scripts, tp) ==
    IF scripts = <<>> THEN tp
    ELSE LdLoop(Tail(scripts), LdBlock(Head(scripts), tp))

\* title and price after the fallback of lines 183-198
TitlePrice(doc) ==
    LET tp == <<SelectorTitle(doc), SelectorPrice(doc)>> IN
    IF tp[1] = <<>> \/ tp[2] = <<>> THEN LdLoop(doc.scripts, tp) ELSE tp

\* variant of MakeProduct without the title check of line 200 (C2 depends on
\* the check)
MakeProductUnchecked(tp, doc, url) ==
    <<[title |-> tp[1], price |-> tp[2], link |-> url,
       image |-> Image(doc), category |-> Category(doc.crumbs),
       description |-> Description(doc)]>>

\* lines 200-204: the record, or None
MakeProduct(tp, doc, url) ==
    IF tp[1] = <<>> THEN <<>>
    ELSE <<[title |-> tp[1], price |-> tp[2], link |-> url,
            image |-> Image(doc), category |-> Category(doc.crumbs),
            description |-> Description(doc)]>>

\* variant of parse_product that gives a record without enrichment for a page
\* that failed to fetch, where line 149 returns None (C7 depends on the None)
parse_product_blank(resp, url) ==
    IF resp = <<>>
    THEN <<[title |-> <<"?">>, price |-> <<>>, link |-> url, image |-> <<>>,
            category |-> <<>>, description |-> <<>>]>>
    ELSE MakeProduct(TitlePrice(resp[1]), resp[1], url)

\* parse_product(url, idx) once render has returned resp
parse_product(resp, url) ==
    IF resp = <<>> THEN <<>>
    ELSE MakeProduct(TitlePrice(resp[1]), resp[1], url)

-----------------------------------------------------------------------------
(* The documents the server of the crawl answers with *)

El(m, t) == [m |-> m, text |-> t]

\* hrefs of the product tiles: /rower-1 in relative and in absolute form, the
\* other products in absolute form
CrawlHrefs ==
    {Href(FALSE, "product", 1)} \cup {ProductUrl(n) : n \in 1..NumProducts}

CrawlCards == {<<h>> : h \in CrawlHrefs}

NoCards == [k \in 1..Len(LIST_SELECTORS) |-> <<>>]

\* the "next" control: missing, without href, or a relative link to a listing
NextEls ==
    {<<>>, <<[href |-> <<>>]>>}
        \cup {<<[href |-> <<Href(FALSE, "listing", n)>>]>> : n \in 1..PageCap}

CrawlListDocs ==
    {[cards |-> [NoCards EXCEPT ![1] = cs], anchors |-> <<>>,
      next_rel |-> nr, next_cls |-> <<>>] :
        cs \in SeqUpTo(CrawlCards, MaxCards), nr \in NextEls}

\* three product pages: the title in the primary selector (and JSON-LD that
\* must not override it), the title in JSON-LD only, no title anywhere
CrawlLd ==
    <<[ok |-> TRUE, type |-> "Product", name |-> <<"b">>,
       offers |-> <<(<<"9">>)>>]>>

CrawlProdDoc(t, p, sc) ==
    [title_els |-> t, price_els |-> p, img |-> <<>>,
     crumbs |-> << <<"H">>, <<"C">>, <<"a">> >>, desc |-> <<>>, scripts |-> sc]

CrawlProdDocs ==
    {CrawlProdDoc(<<El({1, 3}, <<" ", "a", " ">>)>>, <<>>, CrawlLd),
     CrawlProdDoc(<<>>, <<El({1, 4}, <<"5">>)>>, CrawlLd),
     CrawlProdDoc(<<El({3}, <<" ">>)>>, <<>>, <<>>)}

-----------------------------------------------------------------------------
(* render: the fetcher *)

\* what one request attempt gives: an exception of s.get or of the rendering
\* (timeout, connection reset), a 4xx status, a 5xx status, status 200 with an
\* empty document, status 200 with a document
Outcomes == {"exc", "s4xx", "s5xx", "empty", "ok"}

\* line 86: if r.status_code == 200 and html: return r
Succeeds(o) == o = "ok"

\* lines 88-90: tenths of a second slept after attempt number att
Backoff(o, att) == IF o = "exc" THEN 12 * att ELSE 0

\* variant of LoopGoesOn with one pass too many (C9 depends on the bound)
LoopGoesOnOneMore(att) == att <= RETRIES

\* line 74: whether the loop goes on after the failed attempt number att
LoopGoesOn(att) == att < RETRIES

ResetRender ==
    /\ attempt' = 0
    /\ outcome' = "none"
    /\ slept' = 0
    /\ r' = <<>>

\* the caller has used the response: the locals of render are gone; outcome
\* and r keep what the server answered last and what render returned last
ReturnFromRender ==
    /\ attempt' = 0
    /\ slept' = 0
    /\ UNCHANGED <<outcome, r>>

\* one pass of the loop of lines 74-90, and the return that follows it
RenderAttempt ==
    /\ pc \in {"list_render", "prod_render"}
    /\ \E o \in Outcomes :
         LET att == attempt + 1
             back == IF pc = "list_render" THEN "list_parse" ELSE "prod_parse"
         IN /\ attempt' = att
            /\ outcome' = o
            /\ slept' = Backoff(o, att)
            /\ IF Succeeds(o)
               THEN /\ \E d \in (IF pc = "list_render" THEN CrawlListDocs
                                 ELSE CrawlProdDocs) : r' = <<d>>
                    /\ pc' = back
               ELSE /\ r' = <<>>
                    /\ pc' = IF LoopGoesOn(att) THEN pc ELSE back
    /\ UNCHANGED crawlVars

-----------------------------------------------------------------------------
(* crawl and main *)

\* variant of NewLinks without the seen-set filter (C1 depends on the filter)
NewLinksUnfiltered(links, sn) == links

\* line 223
NewLinks(links, sn) == SelectSeq(links, LAMBDA u : u \notin sn)

\* line 215 and the call of line 217
CrawlLoop ==
    /\ pc = "loop"
    /\ IF page_url = <<>>
       THEN /\ pc' = "returned"
            /\ UNCHANGED renderVars
       ELSE /\ page <= PageCap
            /\ pc' = "list_render"
            /\ ResetRender
    /\ UNCHANGED crawlVars

\* variant of ParseList that starts over from the first page when a listing
\* gives no links, where line 221 breaks (C5 depends on the break)
ParseListRestart ==
    /\ pc = "list_parse"
    /\ LET res == parse_list(r) IN
         /\ next_url' = res.next_url
         /\ IF res.links = <<>>
            THEN /\ pc' = "loop"
                 /\ page' = START_PAGE
                 /\ page_url' = <<ListingUrl(START_PAGE)>>
                 /\ UNCHANGED <<new_links, seen, i>>
            ELSE /\ new_links' = SelectSeq(res.links, LAMBDA u : u \notin seen)
                 /\ seen' = seen \cup Range(new_links')
                 /\ i' = 1
                 /\ pc' = "resolve"
                 /\ UNCHANGED <<page, page_url>>
    /\ ReturnFromRender
    /\ UNCHANGED <<MAX_PAGES, items, prod, saved,
                   resolved>>

\* parse_list and the filter, without recording the new links as seen
ParseListForgets ==
    /\ pc = "list_parse"
    /\ LET res == parse_list(r) IN
         /\ next_url' = res.next_url
         /\ IF res.links = <<>>
            THEN /\ pc' = "returned"
                 /\ UNCHANGED <<new_links, seen, i>>
            ELSE /\ new_links' = NewLinks(res.links, seen)
                 /\ seen' = seen
                 /\ i' = 1
                 /\ pc' = "resolve"
    /\ ReturnFromRender
    /\ UNCHANGED <<MAX_PAGES, page, page_url, items, prod, saved,
                   resolved>>

\* parse_list after render, then lines 219-227
ParseList ==
    /\ pc = "list_parse"
    /\ LET res == parse_list(r) IN
         /\ next_url' = res.next_url
         /\ IF res.links = <<>>
            THEN /\ pc' = "returned"
                 /\ UNCHANGED <<new_links, seen, i>>
            ELSE /\ new_links' = NewLinks(res.links, seen)
                 /\ seen' = seen \cup Range(new_links')
                 /\ i' = 1
                 /\ pc' = "resolve"
    /\ ReturnFromRender
    /\ UNCHANGED <<MAX_PAGES, page, page_url, items, prod, saved,
                   resolved>>

\* line 228 with a link left, and the call of line 230
StartProduct ==
    /\ pc = "resolve"
    /\ i <= Len(new_links)
    /\ pc' = "prod_render"
    /\ resolved' = resolved \cup {new_links[i]}
    /\ ResetRender
    /\ UNCHANGED <<MAX_PAGES, page, page_url, next_url, new_links, i, seen,
                   items, prod, saved>>

\* variant of ParseProduct in which a product page that gives no record ends
\* the crawl (C6 depends on the loop going on)
ParseProductAbort ==
    /\ pc = "prod_parse"
    /\ prod' = parse_product(r, new_links[i])
    /\ items' = IF prod' # <<>> THEN Append(items, prod'[1]) ELSE items
    /\ i' = i + 1
    /\ pc' = IF prod' # <<>> THEN "resolve" ELSE "returned"
    /\ ReturnFromRender
    /\ UNCHANGED <<MAX_PAGES, page, page_url, next_url, new_links, seen, saved,
                   resolved>>

\* the record put at the head of items instead of appended
ParseProductPrepend ==
    /\ pc = "prod_parse"
    /\ prod' = parse_product(r, new_links[i])
    /\ items' = IF prod' # <<>> THEN <<prod'[1]>> \o items ELSE items
    /\ i' = i + 1
    /\ pc' = "resolve"
    /\ ReturnFromRender
    /\ UNCHANGED <<MAX_PAGES, page, page_url, next_url, new_links, seen, saved,
                   resolved>>

\* parse_product after render, then lines 231-233
ParseProduct ==
    /\ pc = "prod_parse"
    /\ prod' = parse_product(r, new_links[i])
    /\ items' = IF prod' # <<>> THEN Append(items, prod'[1]) ELSE items
    /\ i' = i + 1
    /\ pc' = "resolve"
    /\ ReturnFromRender
    /\ UNCHANGED <<MAX_PAGES, page, page_url, next_url, new_links, seen, saved,
                   resolved>>

\* the page cap tested with > instead of >=
PageEndOffByOne ==
    /\ pc = "resolve"
    /\ i > Len(new_links)
    /\ IF MAX_PAGES # 0 /\ page > MAX_PAGES
       THEN /\ pc' = "returned"
            /\ UNCHANGED <<page, page_url>>
       ELSE /\ page' = page + 1
            /\ page_url' = next_url
            /\ pc' = "loop"
    \* next_url, new_links, i, prod and the response are assigned again (lines
    \* 217, 223, 228, 230) before they are read again: the model forgets them
    /\ next_url' = <<>>
    /\ new_links' = <<>>
    /\ i' = 0
    /\ prod' = <<>>
    /\ r' = <<>>
    /\ UNCHANGED <<MAX_PAGES, seen, items, saved,
                   resolved>>
    /\ UNCHANGED <<attempt, outcome, slept>>

\* the move to the next page taken one link before the end of the for loop
PageEndEarly ==
    /\ pc = "resolve"
    /\ i >= Len(new_links)
    /\ IF MAX_PAGES # 0 /\ page >= MAX_PAGES
       THEN /\ pc' = "returned"
            /\ UNCHANGED <<page, page_url>>
       ELSE /\ page' = page + 1
            /\ page_url' = next_url
            /\ pc' = "loop"
    \* next_url, new_links, i, prod and the response are assigned again (lines
    \* 217, 223, 228, 230) before they are read again: the model forgets them
    /\ next_url' = <<>>
    /\ new_links' = <<>>
    /\ i' = 0
    /\ prod' = <<>>
    /\ r' = <<>>
    /\ UNCHANGED <<MAX_PAGES, seen, items, saved,
                   resolved>>
    /\ UNCHANGED <<attempt, outcome, slept>>

\* lines 235-241, once the for loop is over
PageEnd ==
    /\ pc = "resolve"
    /\ i > Len(new_links)
    /\ IF MAX_PAGES # 0 /\ page >= MAX_PAGES
       THEN /\ pc' = "returned"
            /\ UNCHANGED <<page, page_url>>
       ELSE /\ page' = page + 1
            /\ page_url' = next_url
            /\ pc' = "loop"
    \* next_url, new_links, i, prod and the response are assigned again (lines
    \* 217, 223, 228, 230) before they are read again: the model forgets them
    /\ next_url' = <<>>
    /\ new_links' = <<>>
    /\ i' = 0
    /\ prod' = <<>>
    /\ r' = <<>>
    /\ UNCHANGED <<MAX_PAGES, seen, items, saved,
                   resolved>>
    /\ UNCHANGED <<attempt, outcome, slept>>

\* main, lines 249-256
MainSave ==
    /\ pc = "returned"
    /\ saved' = IF items # <<>> THEN items ELSE saved
    /\ pc' = "done"
    /\ UNCHANGED <<MAX_PAGES, page, page_url, next_url, new_links, i, seen,
                   items, prod,
                   resolved>>
    /\ UNCHANGED renderVars

\* KeyboardInterrupt: no handler in render (except Exception does not catch
\* it), crawl or main, so it ends the process where it is
Interrupt ==
    /\ pc \notin {"done", "interrupted"}
    /\ pc' = "interrupted"
    /\ UNCHANGED crawlVars
    /\ UNCHANGED renderVars

Init ==
    /\ pc = "loop"
    /\ MAX_PAGES \in 0..MaxPagesCfg
    /\ page = START_PAGE
    /\ page_url = <<ListingUrl(START_PAGE)>>
    /\ next_url = <<>>
    /\ new_links = <<>>
    /\ i = 0
    /\ seen = {}
    /\ items = <<>>
    /\ prod = <<>>
    /\ attempt = 0
    /\ outcome = "none"
    /\ slept = 0
    /\ r = <<>>
    /\ saved = <<>>
    /\ resolved = {}

Next ==
    \/ CrawlLoop
    \/ RenderAttempt
    \/ ParseList
    \/ StartProduct
    \/ ParseProduct
    \/ PageEnd
    \/ MainSave
    \/ Interrupt

Spec == Init /\ [][Next]_vars

-----------------------------------------------------------------------------
(* parse_product on its own, over a wider set of product documents *)

\* an h1 with class product-name, an h1 with itemprop name, a plain h1
TitleEls ==
    {El(m, t) : m \in {{1, 3}, {2, 3}, {3}}, t \in {<<" ">>, <<" ", "a">>}}

\* a .current-price element with a price, a .price element without text
PriceEls == {El({1, 4}, <<"5", " ">>), El({4}, <<>>)}

\* JSON-LD blocks: one that does not parse, one of another @type, and Product
\* blocks with or without a name and an offer (price 9 next to a name, price
\* 8 without one)
LdBlocks ==
    {[ok |-> FALSE, type |-> "Product", name |-> <<"b">>, offers |-> <<(<<"9">>)>>],
     [ok |-> TRUE, type |-> "Organization", name |-> <<"b">>, offers |-> <<(<<"9">>)>>],
     [ok |-> TRUE, type |-> "Product", name |-> <<"b">>, offers |-> <<(<<" ", "9">>)>>],
     [ok |-> TRUE, type |-> "Product", name |-> <<"b">>, offers |-> <<>>],
     [ok |-> TRUE, type |-> "Product", name |-> <<>>, offers |-> <<(<<"8">>)>>]}

ProdDocs ==
    {[title_els |-> t, price_els |-> p, img |-> <<>>,
      crumbs |-> << <<"H">>, <<"C">>, <<"a">> >>, desc |-> <<>>,
      scripts |-> sc] :
        t \in SeqUpTo(TitleEls, MaxEls),
        p \in {<<>>} \cup {<<e>> : e \in PriceEls},
        sc \in SeqUpTo(LdBlocks, MaxScripts)}

\* crawl has recorded one new link and render has just returned for it
InitProduct ==
    /\ pc = "prod_parse"
    /\ MAX_PAGES = 0
    /\ page = START_PAGE
    /\ page_url = <<ListingUrl(START_PAGE)>>
    /\ next_url = <<>>
    /\ new_links = <<ProductUrl(1)>>
    /\ i = 1
    /\ seen = {ProductUrl(1)}
    /\ items = <<>>
    /\ prod = <<>>
    /\ attempt = 1
    /\ outcome = "ok"
    /\ slept = 0
    /\ r \in {<<d>> : d \in ProdDocs}
    /\ saved = <<>>
    /\ resolved = {ProductUrl(1)}

NextProduct == ParseProduct

SpecProduct == InitProduct /\ [][NextProduct]_vars

-----------------------------------------------------------------------------
(* parse_product on its own, over product documents that differ in one field *)

\* crawl has recorded one new link and render has just returned one of docs
AtProductReturn(docs) ==
    /\ pc = "prod_parse"
    /\ MAX_PAGES = 0
    /\ page = START_PAGE
    /\ page_url = <<ListingUrl(START_PAGE)>>
    /\ next_url = <<>>
    /\ new_links = <<ProductUrl(1)>>
    /\ i = 1
    /\ seen = {ProductUrl(1)}
    /\ items = <<>>
    /\ prod = <<>>
    /\ attempt = 1
    /\ outcome = "ok"
    /\ slept = 0
    /\ r \in {<<d>> : d \in docs}
    /\ saved = <<>>
    /\ resolved = {ProductUrl(1)}

\* a product page with the title "a" in its h1.product-name
TitledDoc(crumbs, desc, scripts) ==
    [title_els |-> <<El({1, 3}, <<"a">>)>>, price_els |-> <<>>, img |-> <<>>,
     crumbs |-> crumbs, desc |-> desc, scripts |-> scripts]

\* breadcrumb texts: the home crumb, a category, the product
HomeCrumb == <<"H">>
CrumbTexts == {HomeCrumb, <<"C">>, <<"X", " ">>}

CrumbDocs ==
    {TitledDoc(c, <<>>, <<>>) : c \in SeqUpTo(CrumbTexts, MaxCrumbs)}

InitCategory == AtProductReturn(CrumbDocs)

NextCategory == ParseProduct

SpecCategory == InitCategory /\ [][NextCategory]_vars

\* description texts: blanks, tabs and a letter
Chars == {" ", "\t", "a"}

\* pages without a description element, and pages whose description element
\* holds every text of up to MaxLen characters
NormDocs ==
    {TitledDoc(<<>>, <<>>, <<>>)}
    \cup {TitledDoc(<<>>, <<El({1}, t)>>, <<>>) : t \in SeqUpTo(Chars, MaxLen)}

InitNorm == AtProductReturn(NormDocs)

NextNorm == ParseProduct

SpecNorm == InitNorm /\ [][NextNorm]_vars

-----------------------------------------------------------------------------
(* parse_list on its own, over listing documents whose cards and hyperlinks
   vary *)

\* a card without a[href], a card linking elsewhere, two product cards
ListCards ==
    {<<>>, <<Href(TRUE, "other", 1)>>, <<Href(FALSE, "product", 1)>>,
     <<ProductUrl(2)>>}

\* the hyperlinks of the page outside the cards
ListAnchors == {<<>>, <<Href(TRUE, "other", 1)>>, <<ProductUrl(2)>>}

\* cards under .product-miniature and li.product only
ListDocs ==
    {[cards |-> [NoCards EXCEPT ![1] = c1, ![3] = c3], anchors |-> as,
      next_rel |-> <<>>, next_cls |-> <<>>] :
        c1 \in SeqUpTo(ListCards, MaxCards),
        c3 \in SeqUpTo(ListCards, MaxCards),
        as \in ListAnchors}

\* crawl is on the first page and render has just returned in parse_list
InitList ==
    /\ pc = "list_parse"
    /\ MAX_PAGES = 0
    /\ page = START_PAGE
    /\ page_url = <<ListingUrl(START_PAGE)>>
    /\ next_url = <<>>
    /\ new_links = <<>>
    /\ i = 0
    /\ seen = {}
    /\ items = <<>>
    /\ prod = <<>>
    /\ attempt = 1
    /\ outcome = "ok"
    /\ slept = 0
    /\ r \in {<<d>> : d \in ListDocs}
    /\ saved = <<>>
    /\ resolved = {}

NextList == ParseList

SpecList == InitList /\ [][NextList]_vars

-----------------------------------------------------------------------------
(* Properties *)

Rendering == {"list_render", "prod_render"}
Resolving == {"resolve", "prod_render", "prod_parse"}
Stopped == {"returned", "done", "interrupted"}
Failed == {"exc", "s4xx", "s5xx", "empty"}

Links(recs) == {recs[k].link : k \in 1..Len(recs)}

\* C1: Dedup invariant.  Whatever the listing pages repeat, within a page or
\* across pages, the list crawl() builds and returns never holds two records
\* with the same link.
C1_NoDuplicateLinks ==
    \A a, b \in 1..Len(items) : a # b => items[a].link # items[b].link

\* C1 witness: a later page listed only links already seen on an earlier page
\* (it had links, none of them new) while records are held.
C1_Witness ==
    /\ pc = "resolve"
    /\ page > START_PAGE
    /\ new_links = <<>>
    /\ Len(items) >= 2

\* C2: Required-field invariant.  Every record of the list of crawl() has a
\* non-empty title; a product page whose title is empty after the selectors
\* and the structured data gives no record, and the crawl goes on with the
\* next link.
C2_TitleRequired ==
    /\ [](\A k \in 1..Len(items) : items[k].title # <<>>)
    /\ [][(pc = "prod_parse" /\ r # <<>> /\ TitlePrice(r[1])[1] = <<>>)
            => (pc' = "interrupted"
                \/ (pc' = "resolve" /\ i' = i + 1 /\ items' = items
                    /\ new_links' = new_links))]_vars

\* C2 witness: a product page was fetched, gave no title and no record, and
\* the for loop stands at a further link.
C2_Witness ==
    /\ pc = "resolve"
    /\ outcome = "ok"
    /\ prod = <<>>
    /\ i > 1
    /\ i <= Len(new_links)

\* C3: Interrupt durability.  When an interrupt ends a crawl that has
\* accumulated at least one record, the records accumulated so far are written
\* to the output.
C3_InterruptDurability ==
    (pc = "interrupted" /\ items # <<>>) => saved = items

\* C4: Pagination termination.  A listing document without "next" control
\* gives next_url = None; crawl() then resolves every new link of that page
\* and returns without fetching another listing page.
C4_LastPage ==
    /\ [][(pc = "list_parse" /\ r # <<>>
           /\ r[1].next_rel = <<>> /\ r[1].next_cls = <<>>)
            => next_url' = <<>>]_vars
    /\ [][(pc \in Resolving /\ next_url = <<>>)
            => ((pc' \in Resolving /\ next_url' = <<>> /\ page' = page)
                \/ (pc' = "loop" /\ page_url' = <<>> /\ i > Len(new_links))
                \/ (pc' = "returned" /\ i > Len(new_links))
                \/ pc' = "interrupted")]_vars
    /\ [][(pc = "loop" /\ page_url = <<>>)
            => (pc' \in {"returned", "interrupted"} /\ attempt' = attempt)]_vars

\* C4 witness: the crawl has returned because the cursor was None, with
\* records of the last page in hand.
C4_Witness ==
    /\ pc = "returned"
    /\ page_url = <<>>
    /\ items # <<>>

\* C5: A listing page that fails to fetch, or has no product link, stops the
\* crawl there: no further request, no restart from page 1, and the records
\* of the earlier pages are what crawl() returns.
C5_ListingFailureStops ==
    /\ [][(pc = "list_parse" /\ parse_list(r).links = <<>>)
            => (pc' \in {"returned", "interrupted"}
                /\ items' = items /\ page' = page /\ page_url' = page_url)]_vars
    /\ [][(pc \in Stopped)
            => (pc' \in Stopped /\ items' = items /\ page' = page
                /\ page_url' = page_url /\ attempt' = attempt
                /\ outcome' = outcome)]_vars

\* C5 witness: the fetch of a later listing page failed after all retries and
\* crawl() has returned the records of the earlier pages.
C5_Witness ==
    /\ pc = "returned"
    /\ page > START_PAGE
    /\ page_url # <<>>
    /\ outcome \in Failed
    /\ items # <<>>

\* C6: One bad product page never fails the batch.  After a failed product
\* fetch the records stay as they are, the for loop moves to the next new
\* link, every remaining link is resolved and pagination goes on with the
\* next page.
C6_BadProductPageSkipped ==
    /\ [][(pc = "prod_parse" /\ r = <<>>)
            => (pc' = "interrupted"
                \/ (pc' = "resolve" /\ i' = i + 1 /\ items' = items
                    /\ new_links' = new_links /\ next_url' = next_url
                    /\ page_url' = page_url /\ page' = page))]_vars
    /\ [][(pc = "resolve" /\ i <= Len(new_links))
            => (pc' \in {"prod_render", "interrupted"} /\ i' = i)]_vars
    /\ [][(pc = "resolve" /\ i > Len(new_links)
           /\ ~(MAX_PAGES # 0 /\ page >= MAX_PAGES))
            => (pc' = "interrupted"
                \/ (pc' = "loop" /\ page_url' = next_url /\ items' = items))]_vars

\* C6 witness: a product fetch has failed and the for loop stands at a
\* further link of the same page.
C6_Witness ==
    /\ pc = "resolve"
    /\ outcome \in Failed
    /\ i > 1
    /\ i <= Len(new_links)

C8_NoRetryAfter4xx ==
    [][(pc \in Rendering /\ outcome = "s4xx") => attempt' = attempt]_vars

\* C9: The retries of render are bounded and it never raises.  One call makes
\* at most RETRIES attempts; it returns the response at the first attempt that
\* gives status 200 with a document, and None after RETRIES failed attempts
\* (exceptions included).
C9_RenderBounded ==
    /\ attempt \in 0..RETRIES
    /\ pc \in Rendering =>
         /\ attempt < RETRIES
         /\ outcome \in Failed \cup {"none"}
         /\ (attempt = 0) = (outcome = "none")
         /\ r = <<>>
    /\ pc \in {"list_parse", "prod_parse"} =>
         /\ attempt \in 1..RETRIES
         /\ (outcome = "ok") = (r # <<>>)
         /\ outcome \in Failed => attempt = RETRIES

\* C9 witness: every attempt of a call failed, the last one by an exception,
\* and render has returned None.
C9_Witness ==
    /\ pc = "list_parse"
    /\ attempt = RETRIES
    /\ outcome = "exc"
    /\ r = <<>>

RECURSIVE JoinCrumbs(_)
JoinCrumbs(cs) ==
    IF cs = <<>> THEN <<>>
    ELSE IF Len(cs) = 1 THEN norm(cs[1])
    ELSE norm(cs[1]) \o <<" ", ">", " ">> \o JoinCrumbs(Tail(cs))

PathBetween(crumbs) ==
    JoinCrumbs(SubSeq(crumbs, IF crumbs[1] = HomeCrumb THEN 2 ELSE 1,
                      Len(crumbs) - 1))

\* C11: The category of a record is the breadcrumb path between root and
\* leaf: the crumbs joined by the separator, without the trailing product
\* crumb and without the leading home crumb (empty when nothing is left).
C11_CategoryIsPathBetween ==
    [][(pc = "prod_parse" /\ r # <<>> /\ Len(r[1].crumbs) >= 2 /\ prod' # <<>>)
        => prod'[1].category = PathBetween(r[1].crumbs)]_vars

\* C12: With MAX_PAGES = n > 0 a listing page is fetched only while
\* page <= n, each fetch having its own page number, and when crawl returns
\* every link it recorded as new was handed to parse_product, those of the
\* n-th page included; with MAX_PAGES = 0 the loop is never left because of
\* the page number (only an empty next link or a page without links ends it).
C12_PageCap ==
    /\ []((MAX_PAGES # 0 /\ pc \in {"list_render", "list_parse", "resolve",
                                      "prod_render", "prod_parse"})
            => page <= MAX_PAGES)
    /\ []((pc = "returned") => seen = resolved)
    /\ [][((pc = "resolve" /\ pc' = "returned")
            => (i > Len(new_links) /\ MAX_PAGES # 0 /\ page = MAX_PAGES))]_vars
    /\ [][((pc = "resolve" /\ pc' = "loop")
            => (page' = page + 1 /\ (MAX_PAGES = 0 \/ page < MAX_PAGES)))]_vars

\* crawl has stopped at the cap after resolving the links of the last page
C12_Witness ==
    /\ pc = "returned"
    /\ MAX_PAGES > 0
    /\ page = MAX_PAGES
    /\ page_url # <<>>
    /\ items # <<>>
    /\ Cardinality(resolved) = MaxCards

NoOuterOrDoubleWhitespace(d) ==
    /\ d # <<>> => (d[1] \notin Whitespace /\ d[Len(d)] \notin Whitespace)
    /\ \A k \in 1..(Len(d) - 1) :
          ~(d[k] \in Whitespace /\ d[k + 1] \in Whitespace)

\* C13: The description of a record, which is norm of the description
\* element's text (of "" when there is no element), is a fixed point of norm,
\* has no whitespace at either end and no two whitespace characters in a row;
\* for a missing element, an empty text and a whitespace-only text it is "".
C13_NormIdempotent ==
    prod # <<>> =>
        LET d == prod[1].description
            t == TextOf(r[1].desc)
        IN /\ norm(d) = d
           /\ NoOuterOrDoubleWhitespace(d)
           /\ (\A k \in 1..Len(t) : t[k] \in Whitespace) => d = <<>>

\* a text with a run of two whitespace characters inside was normalized to a
\* shorter, non-empty text
C13_Witness ==
    /\ prod # <<>>
    /\ r[1].desc # <<>>
    /\ LET t == TextOf(r[1].desc)
       IN /\ \E k \in 2..(Len(t) - 2) :
                /\ t[k] \in Whitespace /\ t[k + 1] \in Whitespace
                /\ t[k - 1] \notin Whitespace /\ t[k + 2] \notin Whitespace
          /\ Len(prod[1].description) = Len(t) - 1

\* C14: With MAX_PAGES = 0 crawl terminates on every finite catalog, also
\* when the next links form a cycle.  On a fixed catalog crawl runs forever
\* once it is about to fetch again the listing URL it has just parsed while
\* that page added nothing to the seen-set: the same page then gives the same
\* links and the same next link again.  Termination requires that this state
\* is never reached.
C14_CycleTerminates ==
    ~(/\ MAX_PAGES = 0
      /\ pc = "resolve"
      /\ new_links = <<>>
      /\ next_url = page_url)

\* C15: The link crawl hands to parse_product is already in the seen-set and
\* was never handed to parse_product before, whatever became of the earlier
\* resolves (record appended, fetch failed, record dropped for its title).
C15_ResolvedOnce ==
    /\ [][((pc = "resolve" /\ pc' = "prod_render")
            => (new_links[i] \in seen /\ new_links[i] \notin resolved))]_vars
    /\ [](resolved \subseteq seen)

\* a later page lists only links that were resolved before without giving a
\* record: none of them is resolved again
C15_Witness ==
    /\ pc = "resolve"
    /\ page > START_PAGE
    /\ new_links = <<>>
    /\ resolved # {}
    /\ items = <<>>

\* the cascade of the claim: selector s wins only when the normalized text of
\* its first match is not empty
RECURSIVE FirstNonEmpty(_, _, _)
FirstNonEmpty(els, s, n) ==
    IF s > n THEN <<>>
    ELSE LET t == norm(TextOf(FindFirst(els, s))) IN
         IF t # <<>> THEN t ELSE FirstNonEmpty(els, s + 1, n)

\* C16: When the first title selector that matches an element matches one
\* whose text is empty or whitespace and a later title selector matches an
\* element with text, the record's title is that later selector's text.
C16_FirstNonEmptyWins ==
    [][(/\ pc = "prod_parse"
        /\ r # <<>>
        /\ FindCascade(r[1].title_els, 1, Len(TITLE_SELECTORS)) # <<>>
        /\ SelectorTitle(r[1]) = <<>>
        /\ FirstNonEmpty(r[1].title_els, 1, Len(TITLE_SELECTORS)) # <<>>)
        => (/\ prod' # <<>>
            /\ prod'[1].title
                 = FirstNonEmpty(r[1].title_els, 1, Len(TITLE_SELECTORS)))]_vars

\* the first selector from k on that finds an element, 0 if none does
RECURSIVE FirstMatching(_, _)
FirstMatching(cards, k) ==
    IF k > Len(cards) THEN 0
    ELSE IF cards[k] # <<>> THEN k ELSE FirstMatching(cards, k + 1)

\* the first selector from k on whose cards give a product link, 0 if none
RECURSIVE FirstYielding(_, _)
FirstYielding(cards, k) ==
    IF k > Len(cards) THEN 0
    ELSE IF CollectLinks(cards[k], <<>>) # <<>> THEN k
    ELSE FirstYielding(cards, k + 1)

\* what parse_list returned on the first page: with an empty seen-set crawl
\* stops on no links and otherwise takes all links as new
ListReturned(links) ==
    IF links = <<>> THEN pc' = "returned"
    ELSE pc' = "resolve" /\ new_links' = links

\* C17 as stated: the first selector of LIST_SELECTORS that matches an
\* element decides the links, no later selector is tried and the hyperlink
\* scan runs only when no selector matches any element.
C17_FirstMatchDecides ==
    [][(pc = "list_parse" /\ r # <<>>)
        => LET k == FirstMatching(r[1].cards, 1) IN
           ListReturned(IF k = 0 THEN ScanAnchors(r[1].anchors)
                        ELSE CollectLinks(r[1].cards[k], <<>>))]_vars

\* C17 amended: the first selector of LIST_SELECTORS whose cards give at
\* least one product link decides the links and no later selector adds to
\* them; the hyperlink scan runs exactly when no selector gives a link, also
\* when selectors matched elements.
C17_FirstYieldDecides ==
    [][(pc = "list_parse" /\ r # <<>>)
        => LET k == FirstYielding(r[1].cards, 1) IN
           ListReturned(IF k = 0 THEN ScanAnchors(r[1].anchors)
                        ELSE CollectLinks(r[1].cards[k], <<>>))]_vars

\* .product-miniature matched a card without product link, li.product gave
\* the links, and the page has another product hyperlink that was not taken
C17_Witness ==
    /\ pc = "resolve"
    /\ r # <<>>
    /\ r[1].cards[1] # <<>>
    /\ CollectLinks(r[1].cards[1], <<>>) = <<>>
    /\ new_links = <<abs_url(Href(FALSE, "product", 1))>>
    /\ new_links = CollectLinks(r[1].cards[3], <<>>)
    /\ r[1].anchors = <<ProductUrl(2)>>

\* C18: A listing fetch starts only from the head of the while loop, which
\* is reached from a page only when the for loop has run over all its new
\* links, each of them handed to parse_product; while a listing page is
\* fetched or parsed no recorded link is still unresolved, and from the
\* recording of a page's new links to the next listing fetch the seen-set
\* does not change.
C18_PageBarrier ==
    /\ [][((pc' = "list_render" /\ pc # "list_render") => pc = "loop")]_vars
    /\ [][((pc' = "loop" /\ pc # "loop")
            => (/\ pc = "resolve"
                /\ i > Len(new_links)
                /\ Range(new_links) \subseteq resolved))]_vars
    /\ [][((pc' = "prod_render" /\ pc # "prod_render") => pc = "resolve")]_vars
    /\ []((pc \in {"loop", "list_render", "list_parse"}) => seen = resolved)
    /\ [][((pc \in {"resolve", "prod_render", "prod_parse", "loop",
                     "list_render"}) => seen' = seen)]_vars

\* the fetch of the second page has started after a page whose links were
\* all resolved, one with a record and one without
C18_Witness ==
    /\ pc = "list_render"
    /\ page > START_PAGE
    /\ Cardinality(resolved) = 2
    /\ Len(items) = 1

\* the hrefs of the cards of a crawled listing, in document order, absolute
CardUrls(doc) ==
    [k \in 1..Len(doc.cards[1]) |-> abs_url(doc.cards[1][k][1])]

\* position of link u in the sequence us, 0 if it is not there
IndexIn(us, u) ==
    IF \E k \in 1..Len(us) : us[k] = u
    THEN CHOOSE k \in 1..Len(us) :
            us[k] = u /\ \A j \in 1..(k - 1) : us[j] # u
    ELSE 0

\* C19: The links parse_list returns are absolute, pairwise different, are
\* the links of the page and stand in the order of their first occurrence on
\* the page; new_links keeps that order; items changes only by appending the
\* record of new_links[i] while i walks upwards, so that records stand in
\* the order pages were traversed and, within a page, in page order.
C19_DiscoveryOrder ==
    /\ [][((pc = "list_parse" /\ r # <<>>)
            => LET L == parse_list(r).links
                   U == CardUrls(r[1])
               IN /\ \A a \in 1..Len(L) : L[a].abs /\ IndexIn(U, L[a]) > 0
                  /\ \A a \in 1..Len(U) : IndexIn(L, U[a]) > 0
                  /\ \A a, b \in 1..Len(L) :
                        a < b => IndexIn(U, L[a]) < IndexIn(U, L[b])
                  /\ pc' = "resolve" =>
                        /\ \A a \in 1..Len(new_links') :
                              IndexIn(L, new_links'[a]) > 0
                        /\ \A a, b \in 1..Len(new_links') :
                              a < b => IndexIn(L, new_links'[a])
                                          < IndexIn(L, new_links'[b]))]_vars
    /\ [][((items' # items)
            => (/\ pc = "prod_parse"
                /\ prod' # <<>>
                /\ items' = Append(items, prod'[1])
                /\ prod'[1].link = new_links[i]
                /\ i' = i + 1))]_vars
    /\ [][((pc \in Resolving /\ pc' \in Resolving)
            => (new_links' = new_links /\ i' >= i))]_vars
    /\ []((pc \in Resolving) =>
            \A a, b \in 1..Len(items) :
               a < b =>
                 LET ia == IndexIn(new_links, items[a].link)
                     ib == IndexIn(new_links, items[b].link)
                 IN /\ ia > 0 => ib > ia
                    /\ ib > 0 => ib < i)

\* the first page gave the record of product 2, the second page listed
\* product 1 as its only new link and its record stands after it
C19_Witness ==
    /\ pc = "resolve"
    /\ page > START_PAGE
    /\ Len(items) = 2
    /\ items[1].link = ProductUrl(2)
    /\ new_links = <<ProductUrl(1)>>
    /\ items[2].link = new_links[1]

\* C20: An attempt of render that follows a transient failure (an exception
\* such as a timeout or a connection reset, or a 5xx answer) starts only
\* after a sleep of 1.2 s times the number of the failed attempt.
C20_BackoffBeforeRetry ==
    [][(/\ pc \in Rendering
        /\ outcome \in {"exc", "s5xx"}
        /\ attempt' = attempt + 1)
        => (slept = 12 * attempt /\ slept > 0)]_vars

====
